---- MODULE Spec2Model ----
(***************************************************************************)
(* Matrix-factorization movie recommender (hw3: data.js + script.js).      *)
(*                                                                         *)
(* The page is one JavaScript thread.  window.onload loads the data,       *)
(* fills the dropdown and runs trainMF, which suspends at                  *)
(* `await nextAnimationFrame()`; while it is suspended the host may run    *)
(* the click handler getRecommendations or a direct topKSimilarItems call. *)
(* pc is the position of onload/trainMF; the handlers run only when pc is  *)
(* a suspension point.                                                     *)
(*                                                                         *)
(* Numbers: a JavaScript double x is the integer x * SCALE; every          *)
(* multiplication and division rounds to that grid (downwards), as every   *)
(* IEEE operation rounds to the nearest double.                            *)
(***************************************************************************)
EXTENDS Integers, Sequences, FiniteSets, TLC

(* ---------------- bounds of the model ---------------- *)
\* grid of the fixed-point numbers
SCALE == 10000
\* hyperparameters of script.js, scaled down (source: 20, 12, 5000)
K == 2
EPOCHS == 2
YIELD_EVERY == 2
\* cap of data.js, scaled down (source: 30000)
MAX_RATINGS == 3
\* largest k passed to a direct topKSimilarItems call
MaxK == 3

(* ---------------- program constants ---------------- *)
LR == SCALE \div 100
REG == SCALE \div 20
SHUFFLE == TRUE
\* k that getRecommendations passes to topKSimilarItems / popularFallback
REC_K == 5

(* ---------------- arithmetic on the grid ---------------- *)
Mul(a, b) == (a * b) \div SCALE
Div(a, b) == (a * SCALE) \div b

RECURSIVE ISqrtBS(_, _, _)
ISqrtBS(x, lo, hi) ==
  IF lo >= hi THEN lo
  ELSE LET mid == (lo + hi + 1) \div 2
       IN  IF mid * mid <= x THEN ISqrtBS(x, mid, hi) ELSE ISqrtBS(x, lo, mid - 1)

\* Math.sqrt of a grid number s: the grid number nearest below sqrt(s / SCALE)
Sqrt(s) == ISqrtBS(s * SCALE, 0, 46340)

Max(a, b) == IF a >= b THEN a ELSE b
Min(a, b) == IF a <= b THEN a ELSE b

\* arrays are 0-based: a function on 0..n-1
ALen(a) == Cardinality(DOMAIN a)
EmptyArr == [x \in {} |-> 0]

RECURSIVE DotFrom(_, _, _)
DotFrom(a, b, k) ==
  IF k >= ALen(a) THEN 0 ELSE Mul(a[k], b[k]) + DotFrom(a, b, k + 1)

dot(a, b) == DotFrom(a, b, 0)

l2norm(v) == Sqrt(dot(v, v))

\* randSmall() for a draw d of Math.random(), d in [0, SCALE)
randSmall(d) == Mul(d, SCALE \div 10) - SCALE \div 20

(* ---------------- data.js: the two input files ---------------- *)
\* a line of u.data that parses: [userId, itemId, rating]; BadLine is a blank
\* line or one that parseRatingData skips
BadLine == [bad |-> TRUE]
Line(u, i, r) == [userId |-> u, itemId |-> i, rating |-> r]

\* the u.item catalog (ids) and the u.data files the page may be served
Catalog == <<10, 20, 30, 40>>
DataFiles ==
  { <<>>,
    <<BadLine>>,
    <<Line(1, 10, 5)>>,
    <<Line(1, 10, 4), BadLine, Line(1, 10, 2)>>,
    <<Line(1, 10, 5), Line(2, 20, 1)>>,
    <<Line(1, 10, 5), Line(2, 20, 1), Line(2, 30, 4)>>,
    <<Line(1, 30, 2), Line(1, 20, 5), Line(2, 50, 3)>> }
FetchOutcomes == {"ok", "itemFail", "dataFail"}

\* ids a caller may pass to topKSimilarItems
QueryIds == {10, 20, 30, 40, 50}
QueryKs == (0 - 1)..MaxK

EmptyMap == [x \in {} |-> 0]
MapHas(m, id) == id \in DOMAIN m
MapSet(m, id, v) == [x \in (DOMAIN m) \cup {id} |-> IF x = id THEN v ELSE m[x]]
MapSize(m) == Cardinality(DOMAIN m)

\* nextUserIdx++ / nextItemIdx++ executed for every retained line
advance_Always(isNew, idx) == idx + 1

\* `if (!map.has(id)) map.set(id, next++)`: the counter after the statement
advance(isNew, idx) == IF isNew THEN idx + 1 ELSE idx

\* the cap tested with > instead of >=
capReached_OffByOne(rs) == Len(rs) > MAX_RATINGS

\* `if (ratings.length >= MAX_RATINGS) break`
capReached(rs) == Len(rs) >= MAX_RATINGS

\* parseRatingData: the loop over the lines, from line n on, with the state
\* st = [ratings, userIdToIndex, itemIdToIndex, nextUserIdx, nextItemIdx]
RECURSIVE parseRatingLines(_, _, _)
parseRatingLines(lines, n, st) ==
  IF n > Len(lines) \/ capReached(st.ratings) THEN st
  ELSE LET line == lines[n]
       IN  IF line = BadLine THEN parseRatingLines(lines, n + 1, st)
           ELSE LET newU == ~MapHas(st.userIdToIndex, line.userId)
                    newI == ~MapHas(st.itemIdToIndex, line.itemId)
                IN  parseRatingLines(lines, n + 1,
                      [ratings |-> Append(st.ratings, line),
                       userIdToIndex |->
                         IF newU THEN MapSet(st.userIdToIndex, line.userId, st.nextUserIdx)
                         ELSE st.userIdToIndex,
                       itemIdToIndex |->
                         IF newI THEN MapSet(st.itemIdToIndex, line.itemId, st.nextItemIdx)
                         ELSE st.itemIdToIndex,
                       nextUserIdx |-> advance(newU, st.nextUserIdx),
                       nextItemIdx |-> advance(newI, st.nextItemIdx)])

parseRatingData(lines) ==
  parseRatingLines(lines, 1,
    [ratings |-> <<>>, userIdToIndex |-> EmptyMap, itemIdToIndex |-> EmptyMap,
     nextUserIdx |-> 0, nextItemIdx |-> 0])

SeqToSet(s) == {s[n] : n \in 1..Len(s)}

(* ---------------- state ---------------- *)
VARIABLES
  files,          \* what the host serves: [lines, fetch]
  movies,         \* data.js: ids of the parsed catalog
  ratings,        \* data.js: [userId, itemId, rating]
  userIdToIndex,  \* data.js
  itemIdToIndex,  \* data.js
  options,        \* ids in the #movie-select dropdown
  status,         \* text of #status
  mu, bu, bi, P, Q, Qunit, trainedOK, indexToItemId, indexToUserId,
  pc,             \* position of window.onload / trainMF
  loc,            \* locals of trainMF: triplets, epoch, idx, sqErr, count,
                  \* sinceYield, u, i, r, e, k
  hist,           \* history of the run: pre (parameters when the current
                  \* update started), updates, sinceSuspend, used, passes,
                  \* log (the statuses set by onload / trainMF from the
                  \* start of training on), ref (the parameters that
                  \* result from the samples taken so far when each update
                  \* is applied to them as a whole)
  lastCall,       \* the handler call of the current scheduling turn
  page            \* the content-based page (hwweek2): movies (data.js),
                  \* value (of #movie-select), result (#result), timers
                  \* (pending setTimeout callbacks), clicks, lastClick, cos
                  \* (the last direct call of cosineSimilarity)

model == <<mu, bu, bi, P, Q, Qunit, indexToItemId, indexToUserId>>
data == <<files, movies, ratings, userIdToIndex, itemIdToIndex, options, page>>
vars == <<files, movies, ratings, userIdToIndex, itemIdToIndex, options, status,
          mu, bu, bi, P, Q, Qunit, trainedOK, indexToItemId, indexToUserId,
          pc, loc, hist, lastCall, page>>

\* positions at which onload / trainMF is suspended or has returned: the
\* host may run another handler
SuspendedPcs == {"loading", "yield", "epochYield", "ready", "failed"}
Idle == pc \in SuspendedPcs

Undefined == 0 - 1
MapGet(m, id) == IF MapHas(m, id) THEN m[id] ELSE Undefined

NoCall == [fn |-> "none", itemId |-> 0, k |-> 0, threw |-> FALSE, list |-> <<>>,
           via |-> "none"]
NoLoc == [triplets |-> <<>>, epoch |-> 0, idx |-> 0, sqErr |-> 0, count |-> 0,
          sinceYield |-> 0, u |-> 0, i |-> 0, r |-> 0, e |-> 0, k |-> 0]
NoHist == [pre |-> [bu |-> EmptyArr, bi |-> EmptyArr, P |-> EmptyArr, Q |-> EmptyArr],
           updates |-> 0, sinceSuspend |-> 0, used |-> <<>>, passes |-> 0,
           log |-> <<>>, sse |-> 0,
           ref |-> [bu |-> EmptyArr, bi |-> EmptyArr, P |-> EmptyArr, Q |-> EmptyArr]]

Status(kind) == [kind |-> kind, epoch |-> 0, total |-> 0, rmse |-> 0]

\* the content-based page before its window.onload
NoResult == [kind |-> "loading", liked |-> Undefined, recs |-> <<>>, click |-> 0]
NoPage == [movies |-> <<>>, value |-> Undefined, result |-> NoResult, timers |-> <<>>,
           clicks |-> 0, lastClick |-> [click |-> 0, value |-> Undefined],
           loaded |-> FALSE, text |-> <<>>, overlap |-> <<>>,
           cos |-> [vecA |-> <<>>, vecB |-> <<>>, score |-> 0, called |-> FALSE]]

Init ==
  /\ files \in [lines : DataFiles, fetch : FetchOutcomes]
  /\ movies = <<>>
  /\ ratings = <<>>
  /\ userIdToIndex = EmptyMap
  /\ itemIdToIndex = EmptyMap
  /\ options = {}
  /\ status = Status("loading")
  /\ mu = 0
  /\ bu = EmptyArr
  /\ bi = EmptyArr
  /\ P = EmptyArr
  /\ Q = EmptyArr
  /\ Qunit = EmptyArr
  /\ trainedOK = FALSE
  /\ indexToItemId = EmptyArr
  /\ indexToUserId = EmptyArr
  /\ pc = "loading"
  /\ loc = NoLoc
  /\ hist = NoHist
  /\ lastCall = NoCall
  /\ page = NoPage

(* ---------------- window.onload up to the call of trainMF ---------------- *)
\* populateMoviesDropdown: the movies that have an item index
populateMoviesDropdown_NoFilter(ms, idx) == SeqToSet(ms)

populateMoviesDropdown(ms, idx) == {id \in SeqToSet(ms) : MapHas(idx, id)}

\* loadData resolves (its catch swallows a failed fetch), the dropdown is
\* filled and trainMF is entered
LoadData ==
  /\ pc = "loading"
  /\ LET ms == IF files.fetch = "itemFail" THEN <<>> ELSE Catalog
         parsed == IF files.fetch = "ok" THEN parseRatingData(files.lines)
                   ELSE parseRatingData(<<>>)
     IN  /\ movies' = ms
         /\ ratings' = parsed.ratings
         /\ userIdToIndex' = parsed.userIdToIndex
         /\ itemIdToIndex' = parsed.itemIdToIndex
         /\ options' = populateMoviesDropdown(ms, parsed.itemIdToIndex)
  /\ status' = Status("training")
  /\ hist' = [hist EXCEPT !.log = <<Status("training")>>]
  /\ pc' = "check"
  /\ lastCall' = NoCall
  /\ UNCHANGED <<files, mu, bu, bi, P, Q, Qunit, trainedOK, indexToItemId,
                 indexToUserId, loc, page>>

(* ---------------- trainMF ---------------- *)
RECURSIVE SumRatings(_, _)
SumRatings(rs, n) == IF n > Len(rs) THEN 0 ELSE rs[n].rating * SCALE + SumRatings(rs, n + 1)

\* the value of 0 / 0
NaN == 0 - SCALE * SCALE
\* the sum divided by ratings.length + 1
mean_CountPlusOne(sum, n) == IF n = 0 THEN NaN ELSE sum \div (n + 1)

\* sum / ratings.length
mean(sum, n) == IF n = 0 THEN NaN ELSE sum \div n

\* onload's catch block: the error of trainMF is shown, trainedOK = false
TrainFailed(kind) ==
  /\ status' = Status(kind)
  /\ hist' = [hist EXCEPT !.log = Append(hist.log, Status(kind))]
  /\ trainedOK' = FALSE
  /\ pc' = "failed"

\* TrainCheck with the test placed after the global mean is computed
TrainCheck_AfterMean ==
  /\ pc = "check"
  /\ mu' = mean(SumRatings(ratings, 1), Len(ratings))
  /\ LET U == MapSize(userIdToIndex)
         I == MapSize(itemIdToIndex)
     IN  IF Len(ratings) = 0 \/ U = 0 \/ I = 0
         THEN TrainFailed("failedEmpty")
         ELSE /\ pc' = "init"
              /\ UNCHANGED <<status, trainedOK, hist>>
  /\ lastCall' = NoCall
  /\ UNCHANGED <<data, bu, bi, P, Q, Qunit, indexToItemId, indexToUserId, loc>>

\* the precondition check at the top of trainMF
TrainCheck ==
  /\ pc = "check"
  /\ LET U == MapSize(userIdToIndex)
         I == MapSize(itemIdToIndex)
     IN  IF Len(ratings) = 0 \/ U = 0 \/ I = 0
         THEN TrainFailed("failedEmpty")
         ELSE /\ pc' = "init"
              /\ UNCHANGED <<status, trainedOK, hist>>
  /\ lastCall' = NoCall
  /\ UNCHANGED <<data, model, loc>>

\* the inverse of an index map, as an array
inverseMap(m) == [x \in {m[id] : id \in DOMAIN m} |-> CHOOSE id \in DOMAIN m : m[id] = x]

\* Math.random(): the calls that fill row `row` of P (rows 0..U-1) or Q (rows
\* U..U+I-1) return DrawTable in turn, except that for the rows in zeroRows
\* every call returns 1/2, for which randSmall is 0; zeroRows is empty or one
\* row of P and one row of Q
DrawTable == <<(SCALE \div 10) * 8, SCALE \div 10, (SCALE \div 10) * 3,
               (SCALE \div 10) * 9, (SCALE \div 10) * 6>>
ZeroRowChoices(U, I) ==
  {{}} \cup {{u, U + i} : u \in 0..(U - 1), i \in 0..(I - 1)}
RandomDraw(zeroRows, row, k) ==
  IF row \in zeroRows THEN SCALE \div 2
  ELSE DrawTable[((row * K + k) % Len(DrawTable)) + 1]

triplet(rt) == [u |-> MapGet(userIdToIndex, rt.userId),
                i |-> MapGet(itemIdToIndex, rt.itemId),
                r |-> rt.rating * SCALE]

\* TrainInit with the row counts of P and Q exchanged
TrainInit_SwappedSizes ==
  /\ pc = "init"
  /\ LET U == MapSize(userIdToIndex)
         I == MapSize(itemIdToIndex)
     IN  /\ indexToItemId' = inverseMap(itemIdToIndex)
         /\ indexToUserId' = inverseMap(userIdToIndex)
         /\ mu' = mean(SumRatings(ratings, 1), Len(ratings))
         /\ bu' = [x \in 0..(U - 1) |-> 0]
         /\ bi' = [x \in 0..(I - 1) |-> 0]
         /\ \E zeroRows \in ZeroRowChoices(U, I) :
              /\ P' = [x \in 0..(I - 1) |->
                        [k \in 0..(K - 1) |-> randSmall(RandomDraw(zeroRows, x, k))]]
              /\ Q' = [x \in 0..(U - 1) |->
                        [k \in 0..(K - 1) |-> randSmall(RandomDraw(zeroRows, U + x, k))]]
              /\ hist' = [hist EXCEPT !.ref = [bu |-> bu', bi |-> bi', P |-> P', Q |-> Q']]
  /\ loc' = [NoLoc EXCEPT !.triplets = [n \in 1..Len(ratings) |-> triplet(ratings[n])],
                          !.epoch = 1]
  /\ pc' = "epoch"
  /\ lastCall' = NoCall
  /\ UNCHANGED <<data, status, Qunit, trainedOK>>

\* inverse maps, global mean, parameter initialisation, triplets
TrainInit ==
  /\ pc = "init"
  /\ LET U == MapSize(userIdToIndex)
         I == MapSize(itemIdToIndex)
     IN  /\ indexToItemId' = inverseMap(itemIdToIndex)
         /\ indexToUserId' = inverseMap(userIdToIndex)
         /\ mu' = mean(SumRatings(ratings, 1), Len(ratings))
         /\ bu' = [x \in 0..(U - 1) |-> 0]
         /\ bi' = [x \in 0..(I - 1) |-> 0]
         /\ \E zeroRows \in ZeroRowChoices(U, I) :
              /\ P' = [x \in 0..(U - 1) |->
                        [k \in 0..(K - 1) |-> randSmall(RandomDraw(zeroRows, x, k))]]
              /\ Q' = [x \in 0..(I - 1) |->
                        [k \in 0..(K - 1) |-> randSmall(RandomDraw(zeroRows, U + x, k))]]
              /\ hist' = [hist EXCEPT !.ref = [bu |-> bu', bi |-> bi', P |-> P', Q |-> Q']]
  /\ loc' = [NoLoc EXCEPT !.triplets = [n \in 1..Len(ratings) |-> triplet(ratings[n])],
                          !.epoch = 1]
  /\ pc' = "epoch"
  /\ lastCall' = NoCall
  /\ UNCHANGED <<data, status, Qunit, trainedOK>>

\* the swap written as two assignments without a temporary: arr[i] = arr[j];
\* arr[j] = arr[i]
RECURSIVE fisherYatesFrom_NoTemp(_, _, _)
fisherYatesFrom_NoTemp(arr, js, i) ==
  IF i <= 0 THEN arr
  ELSE LET j == js[i]
           copied == [arr EXCEPT ![i + 1] = arr[j + 1]]
       IN  fisherYatesFrom_NoTemp(copied, js, i - 1)

\* fisherYatesInPlace on a 1-based sequence: for i = n-1 down to 1 (0-based),
\* swap arr[i] and arr[j], j = js[i] the value of (Math.random() * (i + 1)) | 0
RECURSIVE fisherYatesFrom(_, _, _)
fisherYatesFrom(arr, js, i) ==
  IF i <= 0 THEN arr
  ELSE LET j == js[i]
           swapped == [arr EXCEPT ![i + 1] = arr[j + 1], ![j + 1] = arr[i + 1]]
       IN  fisherYatesFrom(swapped, js, i - 1)

fisherYatesInPlace(arr, js) == fisherYatesFrom(arr, js, Len(arr) - 1)

\* the draws of one shuffle of n elements
ShuffleDraws(n) == {js \in [1..(n - 1) -> 0..(n - 1)] : \A i \in 1..(n - 1) : js[i] <= i}

\* EpochStart with the shuffle applied to the global ratings array as well
EpochStart_ShufflesRatings ==
  /\ pc = "epoch"
  /\ IF loc.epoch <= EPOCHS
     THEN /\ \E js \in ShuffleDraws(Len(loc.triplets)) :
               /\ loc' = [loc EXCEPT
                            !.triplets = IF SHUFFLE THEN fisherYatesInPlace(loc.triplets, js)
                                         ELSE loc.triplets,
                            !.sqErr = 0, !.count = 0, !.sinceYield = 0, !.idx = 1]
               /\ ratings' = fisherYatesInPlace(ratings, js)
               /\ hist' = [hist EXCEPT !.used = <<>>, !.sse = 0]
          /\ pc' = "sample"
     ELSE /\ pc' = "build"
          /\ UNCHANGED <<loc, hist, ratings>>
  /\ lastCall' = NoCall
  /\ UNCHANGED <<files, movies, userIdToIndex, itemIdToIndex, options, model, status,
                 trainedOK, page>>

\* head of the epoch loop: leave after EPOCHS epochs, else shuffle and reset
\* the epoch's accumulators
EpochStart ==
  /\ pc = "epoch"
  /\ IF loc.epoch <= EPOCHS
     THEN /\ \E js \in ShuffleDraws(Len(loc.triplets)) :
               /\ loc' = [loc EXCEPT
                            !.triplets = IF SHUFFLE THEN fisherYatesInPlace(loc.triplets, js)
                                         ELSE loc.triplets,
                            !.sqErr = 0, !.count = 0, !.sinceYield = 0, !.idx = 1]
               /\ hist' = [hist EXCEPT !.used = <<>>, !.sse = 0]
          /\ pc' = "sample"
     ELSE /\ pc' = "build"
          /\ UNCHANGED <<loc, hist>>
  /\ lastCall' = NoCall
  /\ UNCHANGED <<data, model, status, trainedOK>>

\* r_hat(u,i) = mu + b_u + b_i + P_u . Q_i
predict(u, i) == mu + bu[u] + bi[i] + dot(P[u], Q[i])

\* lines 173-192 as one function: the parameters m = [bu, bi, P, Q] after
\* the update for the triplet t, with the residual and every right-hand side
\* taken from m
residualOn(m, t) == t.r - (mu + m.bu[t.u] + m.bi[t.i] + dot(m.P[t.u], m.Q[t.i]))

updateOn(m, t) ==
  LET u == t.u
      i == t.i
      e == t.r - (mu + m.bu[u] + m.bi[i] + dot(m.P[u], m.Q[i]))
  IN  [bu |-> [m.bu EXCEPT ![u] = m.bu[u] + Mul(LR, e - Mul(REG, m.bu[u]))],
       bi |-> [m.bi EXCEPT ![i] = m.bi[i] + Mul(LR, e - Mul(REG, m.bi[i]))],
       P |-> [m.P EXCEPT ![u] = [k \in 0..(K - 1) |->
                m.P[u][k] + Mul(LR, Mul(e, m.Q[i][k]) - Mul(REG, m.P[u][k]))]],
       Q |-> [m.Q EXCEPT ![i] = [k \in 0..(K - 1) |->
                m.Q[i][k] + Mul(LR, Mul(e, m.P[u][k]) - Mul(REG, m.Q[i][k]))]]]

\* head of the sample loop: at the end of the triplets go to the epoch's end;
\* else take the next triplet, predict, compute e and accumulate the error.
\* A triplet whose u or i is not a row makes dot() throw a TypeError.
Sample ==
  /\ pc = "sample"
  /\ IF loc.idx > Len(loc.triplets)
     THEN /\ pc' = "epochEnd"
          /\ UNCHANGED <<loc, hist, status, trainedOK>>
     ELSE LET t == loc.triplets[loc.idx]
          IN  IF t.u \notin DOMAIN P \/ t.i \notin DOMAIN Q
              THEN /\ TrainFailed("failedTypeError")
                   /\ UNCHANGED loc
              ELSE LET e == t.r - predict(t.u, t.i)
                   IN  /\ loc' = [loc EXCEPT !.idx = loc.idx + 1,
                                             !.u = t.u, !.i = t.i, !.r = t.r, !.e = e,
                                             !.sqErr = loc.sqErr + Mul(e, e),
                                             !.count = loc.count + 1]
                       /\ hist' = [hist EXCEPT
                                     !.pre = [bu |-> bu, bi |-> bi, P |-> P, Q |-> Q],
                                     !.used = Append(hist.used, t),
                                     !.ref = updateOn(hist.ref, t),
                                     !.sse = hist.sse + Mul(residualOn(hist.ref, t),
                                                            residualOn(hist.ref, t))]
                       /\ pc' = "bias"
                       /\ UNCHANGED <<status, trainedOK>>
  /\ lastCall' = NoCall
  /\ UNCHANGED <<data, model>>

\* b += LR * (e - REG * b)
biasStep(b, e) == b + Mul(LR, e - Mul(REG, b))

\* the two bias updates
BiasUpdate ==
  /\ pc = "bias"
  /\ bu' = [bu EXCEPT ![loc.u] = biasStep(bu[loc.u], loc.e)]
  /\ bi' = [bi EXCEPT ![loc.i] = biasStep(bi[loc.i], loc.e)]
  /\ loc' = [loc EXCEPT !.k = 0]
  /\ pc' = "factor"
  /\ lastCall' = NoCall
  /\ UNCHANGED <<data, mu, P, Q, Qunit, indexToItemId, indexToUserId, status,
                 trainedOK, hist>>

\* the item factor computed from the user factor already updated
factorStep_InPlace(p, q, e) ==
  LET newP == p + Mul(LR, Mul(e, q) - Mul(REG, p))
  IN  [p |-> newP, q |-> q + Mul(LR, Mul(e, newP) - Mul(REG, q))]

\* one iteration of the latent-factor loop on the pair p = pu[k], q = qi[k]
factorStep(p, q, e) ==
  [p |-> p + Mul(LR, Mul(e, q) - Mul(REG, p)),
   q |-> q + Mul(LR, Mul(e, p) - Mul(REG, q))]

FactorUpdate ==
  /\ pc = "factor"
  /\ loc.k < K
  /\ LET new == factorStep(P[loc.u][loc.k], Q[loc.i][loc.k], loc.e)
     IN  /\ P' = [P EXCEPT ![loc.u][loc.k] = new.p]
         /\ Q' = [Q EXCEPT ![loc.i][loc.k] = new.q]
  /\ loc' = [loc EXCEPT !.k = loc.k + 1]
  /\ lastCall' = NoCall
  /\ UNCHANGED <<data, mu, bu, bi, Qunit, indexToItemId, indexToUserId, status,
                 trainedOK, pc, hist>>

\* the test written with `>`
shouldYield_Late(sinceYield) == sinceYield > YIELD_EVERY

\* the test `sinceYield >= YIELD_EVERY` after sinceYield++
shouldYield(sinceYield) == sinceYield >= YIELD_EVERY

\* the yield test placed inside the loop over the dimensions: it can run
\* after the first dimension
YieldCheck_InsideLoop ==
  /\ pc = "factor"
  /\ loc.k >= 1
  /\ IF shouldYield(loc.sinceYield + 1)
     THEN /\ loc' = [loc EXCEPT !.sinceYield = 0]
          /\ pc' = "yield"
          /\ hist' = [hist EXCEPT !.updates = hist.updates + 1,
                                  !.sinceSuspend = hist.sinceSuspend + 1]
     ELSE /\ loc' = [loc EXCEPT !.sinceYield = loc.sinceYield + 1]
          /\ pc' = "sample"
          /\ hist' = [hist EXCEPT !.updates = hist.updates + 1,
                                  !.sinceSuspend = hist.sinceSuspend + 1]
  /\ lastCall' = NoCall
  /\ UNCHANGED <<data, model, status, trainedOK>>

\* end of one update: count it and suspend every YIELD_EVERY updates
YieldCheck ==
  /\ pc = "factor"
  /\ loc.k >= K
  /\ IF shouldYield(loc.sinceYield + 1)
     THEN /\ loc' = [loc EXCEPT !.sinceYield = 0]
          /\ pc' = "yield"
          /\ hist' = [hist EXCEPT !.updates = hist.updates + 1,
                                  !.sinceSuspend = hist.sinceSuspend + 1]
     ELSE /\ loc' = [loc EXCEPT !.sinceYield = loc.sinceYield + 1]
          /\ pc' = "sample"
          /\ hist' = [hist EXCEPT !.updates = hist.updates + 1,
                                  !.sinceSuspend = hist.sinceSuspend + 1]
  /\ lastCall' = NoCall
  /\ UNCHANGED <<data, model, status, trainedOK>>

\* the host runs the animation-frame callback: trainMF goes on with the
\* sample loop
ResumeYield ==
  /\ pc = "yield"
  /\ pc' = "sample"
  /\ hist' = [hist EXCEPT !.sinceSuspend = 0]
  /\ lastCall' = NoCall
  /\ UNCHANGED <<data, model, status, trainedOK, loc>>

\* normalize without the test of the norm: 0 / 0 in every component
normalize_NoGuard(v) ==
  LET n == l2norm(v)
  IN  [k \in 0..(K - 1) |-> IF n = 0 THEN NaN ELSE Div(v[k], n)]

\* one row of Qunit: v / |v|, or zeros when the norm is 0
normalize(v) ==
  LET n == l2norm(v)
  IN  IF n = 0 THEN [k \in 0..(K - 1) |-> 0]
      ELSE [k \in 0..(K - 1) |-> Div(v[k], n)]

\* the mean of the squares, without the root
rmseOf_MeanSquare(sqErr, count) == sqErr \div Max(1, count)

\* Math.sqrt(sqErr / Math.max(1, count))
rmseOf(sqErr, count) == Sqrt(sqErr \div Max(1, count))

\* the status of a finished epoch, 0-based
epochStatus_ZeroBased(epoch, sqErr, count) ==
  [kind |-> "epoch", epoch |-> epoch - 1, total |-> EPOCHS, rmse |-> rmseOf(sqErr, count)]

\* `Training epoch ${epoch}/${EPOCHS} complete - RMSE ...`
epochStatus(epoch, sqErr, count) ==
  [kind |-> "epoch", epoch |-> epoch, total |-> EPOCHS, rmse |-> rmseOf(sqErr, count)]

\* EpochEnd with the index rebuilt inside the epoch loop
EpochEnd_BuildsIndex ==
  /\ pc = "epochEnd"
  /\ status' = epochStatus(loc.epoch, loc.sqErr, loc.count)
  /\ hist' = [hist EXCEPT !.passes = hist.passes + 1,
                          !.log = Append(hist.log,
                                         epochStatus(loc.epoch, loc.sqErr, loc.count))]
  /\ pc' = "epochYield"
  /\ lastCall' = NoCall
  /\ Qunit' = [x \in DOMAIN Q |-> normalize(Q[x])]
  /\ UNCHANGED <<data, mu, bu, bi, P, Q, indexToItemId, indexToUserId, trainedOK, loc>>

\* end of an epoch: report the RMSE and suspend
EpochEnd ==
  /\ pc = "epochEnd"
  /\ status' = epochStatus(loc.epoch, loc.sqErr, loc.count)
  /\ hist' = [hist EXCEPT !.passes = hist.passes + 1,
                          !.log = Append(hist.log,
                                         epochStatus(loc.epoch, loc.sqErr, loc.count))]
  /\ pc' = "epochYield"
  /\ lastCall' = NoCall
  /\ UNCHANGED <<data, model, trainedOK, loc>>

\* the host runs the animation-frame callback: epoch++
ResumeEpoch ==
  /\ pc = "epochYield"
  /\ loc' = [loc EXCEPT !.epoch = loc.epoch + 1]
  /\ hist' = [hist EXCEPT !.sinceSuspend = 0]
  /\ pc' = "epoch"
  /\ lastCall' = NoCall
  /\ UNCHANGED <<data, model, status, trainedOK>>

\* after the last epoch: build Qunit and return; onload shows 'Model ready'
\* and sets trainedOK in the same turn
BuildIndex ==
  /\ pc = "build"
  /\ Qunit' = [x \in DOMAIN Q |-> normalize(Q[x])]
  /\ status' = Status("ready")
  /\ hist' = [hist EXCEPT !.log = Append(hist.log, Status("ready"))]
  /\ trainedOK' = TRUE
  /\ pc' = "ready"
  /\ lastCall' = NoCall
  /\ UNCHANGED <<data, mu, bu, bi, P, Q, indexToItemId, indexToUserId, loc>>

(* ---------------- similarity and recommendations ---------------- *)
\* Array.prototype.sort with the comparator b.key - a.key: stable, descending
RECURSIVE insertDesc(_, _)
insertDesc(sorted, x) ==
  IF sorted = <<>> THEN <<x>>
  ELSE IF Head(sorted).key >= x.key THEN <<Head(sorted)>> \o insertDesc(Tail(sorted), x)
       ELSE <<x>> \o sorted

RECURSIVE sortDescFrom(_, _, _)
sortDescFrom(s, n, acc) ==
  IF n > Len(s) THEN acc ELSE sortDescFrom(s, n + 1, insertDesc(acc, s[n]))

\* the candidates left in loop order (no sort)
sortDesc_Unsorted(s) == s

sortDesc(s) == sortDescFrom(s, 1, <<>>)

\* Array.prototype.slice(0, k) for an integer k (a negative k counts from the end)
slice(s, k) ==
  LET end == IF k < 0 THEN Max(Len(s) + k, 0) ELSE Min(k, Len(s))
  IN  SubSeq(s, 1, end)

\* the loop over j without `if (j === i) continue`
RECURSIVE simsFrom_NoSkip(_, _)
simsFrom_NoSkip(i, j) ==
  IF j >= ALen(Qunit) THEN <<>>
  ELSE <<[id |-> j, key |-> dot(Qunit[i], Qunit[j])]>> \o simsFrom_NoSkip(i, j + 1)

\* the similarity taken against the raw factors Q[j] instead of Qunit[j]
RECURSIVE simsFrom_RawQ(_, _)
simsFrom_RawQ(i, j) ==
  IF j >= ALen(Qunit) THEN <<>>
  ELSE IF j = i THEN simsFrom_RawQ(i, j + 1)
       ELSE <<[id |-> j, key |-> dot(Qunit[i], Q[j])]>> \o simsFrom_RawQ(i, j + 1)

\* the loop over j of topKSimilarItems: {j, sim} for every j except i
RECURSIVE simsFrom(_, _)
simsFrom(i, j) ==
  IF j >= ALen(Qunit) THEN <<>>
  ELSE IF j = i THEN simsFrom(i, j + 1)
       ELSE <<[id |-> j, key |-> dot(Qunit[i], Qunit[j])]>> \o simsFrom(i, j + 1)

\* topKSimilarItems without the `i == null` test: Qunit[undefined] is undefined
\* and dot() throws on it
topKSimilarItems_NoNullTest(itemId, k) ==
  LET i == MapGet(itemIdToIndex, itemId)
  IN  IF ALen(Qunit) = 0 THEN [threw |-> FALSE, list |-> <<>>]
      ELSE IF i \notin DOMAIN Qunit THEN [threw |-> TRUE, list |-> <<>>]
      ELSE LET top == slice(sortDesc(simsFrom(i, 0)), k)
           IN  [threw |-> FALSE,
                list |-> [n \in 1..Len(top) |->
                            [itemId |-> indexToItemId[top[n].id], sim |-> top[n].key]]]

\* topKSimilarItems(itemId, k): [threw, list of [itemId, sim]]
topKSimilarItems(itemId, k) ==
  LET i == MapGet(itemIdToIndex, itemId)
  IN  IF i = Undefined \/ ALen(Qunit) = 0 THEN [threw |-> FALSE, list |-> <<>>]
      ELSE IF i \notin DOMAIN Qunit THEN [threw |-> TRUE, list |-> <<>>]
      ELSE LET top == slice(sortDesc(simsFrom(i, 0)), k)
           IN  [threw |-> FALSE,
                list |-> [n \in 1..Len(top) |->
                            [itemId |-> indexToItemId[top[n].id], sim |-> top[n].key]]]

\* the Map of rating counts per item, in insertion order, without the
\* excluded item: <<[id, key = count]>>
RECURSIVE countsFrom(_, _, _)
countsFrom(n, seen, excludeItemId) ==
  IF n > Len(ratings) THEN <<>>
  ELSE LET id == ratings[n].itemId
       IN  IF id \in seen \/ id = excludeItemId
           THEN countsFrom(n + 1, seen \cup {id}, excludeItemId)
           ELSE <<[id |-> id,
                   key |-> Cardinality({m \in 1..Len(ratings) : ratings[m].itemId = id})]>>
                \o countsFrom(n + 1, seen \cup {id}, excludeItemId)

\* the counted items in the Map's insertion order, without the sort
popularFallback_Unsorted(excludeItemId, k) ==
  LET top == slice(countsFrom(1, {}, excludeItemId), k)
  IN  [n \in 1..Len(top) |-> [itemId |-> top[n].id, sim |-> 0]]

\* popularFallback(excludeItemId, k): list of [itemId, sim = 0]
popularFallback(excludeItemId, k) ==
  LET top == slice(sortDesc(countsFrom(1, {}, excludeItemId)), k)
  IN  [n \in 1..Len(top) |-> [itemId |-> top[n].id, sim |-> 0]]

\* a call that finds no index and builds it by normalising Q in place
CallTopK_NormalizesQ ==
  /\ Idle
  /\ \E itemId \in QueryIds, k \in QueryKs :
       LET res == topKSimilarItems(itemId, k)
       IN  lastCall' = [fn |-> "topKSimilarItems", itemId |-> itemId, k |-> k,
                        threw |-> res.threw, list |-> res.list, via |-> "latent"]
  /\ Q' = IF ALen(Qunit) = 0 THEN [x \in DOMAIN Q |-> normalize(Q[x])] ELSE Q
  /\ UNCHANGED <<data, mu, bu, bi, P, Qunit, indexToItemId, indexToUserId, status,
                 trainedOK, pc, loc, hist>>

\* a call that skips the query item by splicing its row out of Qunit
CallTopK_SplicesIndex ==
  /\ Idle
  /\ \E itemId \in QueryIds, k \in QueryKs :
       LET res == topKSimilarItems(itemId, k)
           i == MapGet(itemIdToIndex, itemId)
       IN  /\ lastCall' = [fn |-> "topKSimilarItems", itemId |-> itemId, k |-> k,
                           threw |-> res.threw, list |-> res.list, via |-> "latent"]
           /\ Qunit' = IF i \in DOMAIN Qunit
                       THEN [j \in 0..(ALen(Qunit) - 2) |->
                               IF j < i THEN Qunit[j] ELSE Qunit[j + 1]]
                       ELSE Qunit
  /\ UNCHANGED <<data, mu, bu, bi, P, Q, indexToItemId, indexToUserId, status,
                 trainedOK, pc, loc, hist>>

\* a direct call of topKSimilarItems while onload / trainMF is suspended
CallTopK ==
  /\ Idle
  /\ \E itemId \in QueryIds, k \in QueryKs :
       LET res == topKSimilarItems(itemId, k)
       IN  lastCall' = [fn |-> "topKSimilarItems", itemId |-> itemId, k |-> k,
                        threw |-> res.threw, list |-> res.list, via |-> "latent"]
  /\ UNCHANGED <<data, model, status, trainedOK, pc, loc, hist>>

\* a direct call popularFallback(excludeItemId, k), which also sets the
\* fallback status
CallFallback ==
  /\ Idle
  /\ \E excludeItemId \in QueryIds, k \in QueryKs :
       lastCall' = [fn |-> "popularFallback", itemId |-> excludeItemId, k |-> k,
                    threw |-> FALSE, list |-> popularFallback(excludeItemId, k),
                    via |-> "fallback"]
  /\ status' = Status("fallback")
  /\ UNCHANGED <<data, model, trainedOK, pc, loc, hist>>

\* getRecommendations without the early return for an empty dropdown:
\* parseInt("") is NaN, which no rating carries
getRecommendations_NoOptionGuard ==
  /\ Idle
  /\ \E movieId \in (IF options = {} THEN {Undefined} ELSE options) :
       IF ~trainedOK
       THEN /\ status' = Status("fallback")
            /\ lastCall' = [fn |-> "getRecommendations", itemId |-> movieId,
                            k |-> REC_K, threw |-> FALSE,
                            list |-> popularFallback(movieId, REC_K),
                            via |-> "fallback"]
       ELSE LET res == topKSimilarItems(movieId, REC_K)
            IN  /\ lastCall' = [fn |-> "getRecommendations", itemId |-> movieId,
                                k |-> REC_K, threw |-> res.threw,
                                list |-> res.list, via |-> "latent"]
                /\ UNCHANGED status
  /\ UNCHANGED <<data, model, trainedOK, pc, loc, hist>>

\* getRecommendations that never looks at trainedOK
getRecommendations_AlwaysFallback ==
  /\ Idle
  /\ IF options = {}
     THEN /\ status' = Status("noMovies")
          /\ lastCall' = [NoCall EXCEPT !.fn = "getRecommendations"]
     ELSE \E movieId \in options :
            /\ status' = Status("fallback")
            /\ lastCall' = [fn |-> "getRecommendations", itemId |-> movieId,
                            k |-> REC_K, threw |-> FALSE,
                            list |-> popularFallback(movieId, REC_K),
                            via |-> "fallback"]
  /\ UNCHANGED <<data, model, trainedOK, pc, loc, hist>>

\* the user selects an option (if there is one) and clicks the button
getRecommendations ==
  /\ Idle
  /\ IF options = {}
     THEN /\ status' = Status("noMovies")
          /\ lastCall' = [NoCall EXCEPT !.fn = "getRecommendations"]
     ELSE \E movieId \in options :
            IF ~trainedOK
            THEN /\ status' = Status("fallback")
                 /\ lastCall' = [fn |-> "getRecommendations", itemId |-> movieId,
                                 k |-> REC_K, threw |-> FALSE,
                                 list |-> popularFallback(movieId, REC_K),
                                 via |-> "fallback"]
            ELSE LET res == topKSimilarItems(movieId, REC_K)
                 IN  /\ lastCall' = [fn |-> "getRecommendations", itemId |-> movieId,
                                     k |-> REC_K, threw |-> res.threw,
                                     list |-> res.list, via |-> "latent"]
                     /\ UNCHANGED status
  /\ UNCHANGED <<data, model, trainedOK, pc, loc, hist>>

\* the steps of window.onload / trainMF
TrainerNext ==
  \/ LoadData
  \/ TrainCheck
  \/ TrainInit
  \/ EpochStart
  \/ Sample
  \/ BiasUpdate
  \/ FactorUpdate
  \/ YieldCheck
  \/ ResumeYield
  \/ EpochEnd
  \/ ResumeEpoch
  \/ BuildIndex

Next ==
  \/ TrainerNext
  \/ CallTopK
  \/ getRecommendations

Spec == Init /\ [][Next]_vars

(* ---------------- trainMF on globals set by another caller ---------------- *)
\* ratings, userIdToIndex and itemIdToIndex are globals of data.js that
\* trainMF reads; here they are assigned by a caller other than
\* parseRatingData: a consistent dataset, an item without an index, a user
\* index outside 0..U-1, and index maps left empty
CallerData ==
  { [ratings |-> <<Line(1, 10, 5), Line(2, 20, 1)>>,
     userIdToIndex |-> MapSet(MapSet(EmptyMap, 1, 0), 2, 1),
     itemIdToIndex |-> MapSet(MapSet(EmptyMap, 10, 0), 20, 1)],
    [ratings |-> <<Line(1, 10, 5), Line(2, 50, 1)>>,
     userIdToIndex |-> MapSet(MapSet(EmptyMap, 1, 0), 2, 1),
     itemIdToIndex |-> MapSet(EmptyMap, 10, 0)],
    [ratings |-> <<Line(1, 10, 5), Line(2, 20, 1)>>,
     userIdToIndex |-> MapSet(MapSet(EmptyMap, 1, 0), 2, 5),
     itemIdToIndex |-> MapSet(MapSet(EmptyMap, 10, 0), 20, 1)],
    [ratings |-> <<Line(1, 10, 5)>>,
     userIdToIndex |-> EmptyMap,
     itemIdToIndex |-> EmptyMap] }

\* window.onload at the call of trainMF, with the globals the caller left
CallerInit ==
  /\ files = [lines |-> <<>>, fetch |-> "ok"]
  /\ movies = Catalog
  /\ \E d \in CallerData :
       /\ ratings = d.ratings
       /\ userIdToIndex = d.userIdToIndex
       /\ itemIdToIndex = d.itemIdToIndex
       /\ options = populateMoviesDropdown(Catalog, d.itemIdToIndex)
  /\ status = Status("training")
  /\ mu = 0
  /\ bu = EmptyArr
  /\ bi = EmptyArr
  /\ P = EmptyArr
  /\ Q = EmptyArr
  /\ Qunit = EmptyArr
  /\ trainedOK = FALSE
  /\ indexToItemId = EmptyArr
  /\ indexToUserId = EmptyArr
  /\ pc = "check"
  /\ loc = NoLoc
  /\ hist = [NoHist EXCEPT !.log = <<Status("training")>>]
  /\ lastCall = NoCall
  /\ page = NoPage

CallerNext ==
  \/ TrainCheck
  \/ TrainInit
  \/ EpochStart
  \/ Sample
  \/ BiasUpdate
  \/ FactorUpdate
  \/ YieldCheck
  \/ ResumeYield
  \/ EpochEnd
  \/ ResumeEpoch
  \/ BuildIndex
  \/ CallTopK
  \/ getRecommendations

CallerSpec == CallerInit /\ [][CallerNext]_vars

(* ---------------- loadData on any rating text ---------------- *)
\* the lines a rating file is made of: ratings of two users and three items
\* (ids repeat) and a line that parseRatingData skips
LineAlphabet == {Line(1, 10, 5), Line(2, 10, 3), Line(1, 20, 1), Line(2, 30, 4), BadLine}

\* long enough for the cap to cut off lines, also behind a skipped line
MaxLines == MAX_RATINGS + 2

ParseInputs == UNION {[1..n -> LineAlphabet] : n \in 0..MaxLines}

\* the page before loadData, with any such text served as u.data
ParseInit ==
  /\ files \in [lines : ParseInputs, fetch : FetchOutcomes]
  /\ movies = <<>>
  /\ ratings = <<>>
  /\ userIdToIndex = EmptyMap
  /\ itemIdToIndex = EmptyMap
  /\ options = {}
  /\ status = Status("loading")
  /\ mu = 0
  /\ bu = EmptyArr
  /\ bi = EmptyArr
  /\ P = EmptyArr
  /\ Q = EmptyArr
  /\ Qunit = EmptyArr
  /\ trainedOK = FALSE
  /\ indexToItemId = EmptyArr
  /\ indexToUserId = EmptyArr
  /\ pc = "loading"
  /\ loc = NoLoc
  /\ hist = NoHist
  /\ lastCall = NoCall
  /\ page = NoPage

ParseSpec == ParseInit /\ [][LoadData]_vars

(* ---------------- popularFallback called directly ---------------- *)
\* u.data files whose items differ in their number of ratings
FallbackFiles ==
  { <<>>,
    <<Line(1, 10, 3), Line(1, 20, 4), Line(2, 20, 5)>>,
    <<Line(1, 30, 2), Line(1, 20, 5), Line(2, 50, 3)>> }

FallbackInit ==
  /\ files \in [lines : FallbackFiles, fetch : FetchOutcomes]
  /\ movies = <<>>
  /\ ratings = <<>>
  /\ userIdToIndex = EmptyMap
  /\ itemIdToIndex = EmptyMap
  /\ options = {}
  /\ status = Status("loading")
  /\ mu = 0
  /\ bu = EmptyArr
  /\ bi = EmptyArr
  /\ P = EmptyArr
  /\ Q = EmptyArr
  /\ Qunit = EmptyArr
  /\ trainedOK = FALSE
  /\ indexToItemId = EmptyArr
  /\ indexToUserId = EmptyArr
  /\ pc = "loading"
  /\ loc = NoLoc
  /\ hist = NoHist
  /\ lastCall = NoCall
  /\ page = NoPage

FallbackNext ==
  \/ TrainerNext
  \/ CallFallback
  \/ getRecommendations

FallbackSpec == FallbackInit /\ [][FallbackNext]_vars

(* ---------------- the content-based page: numbers ---------------- *)
\* JavaScript numbers are binary floating point, rounded to nearest (ties to
\* even) after every operation; the model keeps MANT_BITS significant bits
\* instead of 53. A number is [m, e] for m * 2^e with 2^(MANT_BITS-1) <= m <
\* 2^MANT_BITS, or m = 0.
MANT_BITS == 9

\* the number of genre flags of a movie (18 in GENRE_NAMES)
NUM_GENRES == 3

RECURSIVE BitLen(_)
BitLen(x) == IF x = 0 THEN 0 ELSE 1 + BitLen(x \div 2)

FZero == [m |-> 0, e |-> 0]

\* x * 2^e rounded to a number; sticky says that the exact value is a little
\* above x * 2^e (by less than 2^e)
RoundToFloat(x, e, sticky) ==
  LET nb == BitLen(x)
  IN  IF x = 0 THEN FZero
      ELSE IF nb <= MANT_BITS
           THEN [m |-> x * 2^(MANT_BITS - nb), e |-> e - (MANT_BITS - nb)]
           ELSE LET s == nb - MANT_BITS
                    q == x \div 2^s
                    rem == x % 2^s
                    half == 2^(s - 1)
                    up == rem > half \/ (rem = half /\ (sticky \/ q % 2 = 1))
                    q2 == IF up THEN q + 1 ELSE q
                IN  IF q2 = 2^MANT_BITS THEN [m |-> 2^(MANT_BITS - 1), e |-> e + s + 1]
                    ELSE [m |-> q2, e |-> e + s]

\* Math.sqrt(n) for a whole number n
FSqrt(n) ==
  LET t == MANT_BITS + 1
      x == n * 4^t
      r == ISqrtBS(x, 0, 46340)
  IN  RoundToFloat(r, 0 - t, r * r # x)

\* a * b
FMul(a, b) == RoundToFloat(a.m * b.m, a.e + b.e, FALSE)

\* n / b for a whole number n and b # 0
FDiv(n, b) ==
  LET s == 2 * MANT_BITS + 1
      x == n * 2^s
  IN  RoundToFloat(x \div b.m, 0 - s - b.e, x % b.m # 0)

\* numbers between 0 and 2 are compared as whole multiples of 2^-FOffset
FOffset == MANT_BITS + 8
FKey(f) == IF f.m = 0 THEN 0 ELSE f.m * 2^(f.e + FOffset)
FOne == 2^FOffset

(* ---------------- hwweek2/script.js: cosineSimilarity ---------------- *)
RECURSIVE SumProducts(_, _, _)
SumProducts(a, b, i) ==
  IF i >= ALen(a) THEN 0 ELSE a[i] * b[i] + SumProducts(a, b, i + 1)

\* cosineSimilarity(vecA, vecB), in multiples of 2^-FOffset; the sums of
\* products of small whole numbers are exact
cosineSimilarity(vecA, vecB) ==
  LET dotProduct == SumProducts(vecA, vecB, 0)
      magnitudeA == FSqrt(SumProducts(vecA, vecA, 0))
      magnitudeB == FSqrt(SumProducts(vecB, vecB, 0))
  IN  IF magnitudeA.m = 0 \/ magnitudeB.m = 0 THEN 0
      ELSE FKey(FDiv(dotProduct, FMul(magnitudeA, magnitudeB)))

\* everything but the content-based page
mfVars == <<files, movies, ratings, userIdToIndex, itemIdToIndex, options, status,
            mu, bu, bi, P, Q, Qunit, trainedOK, indexToItemId, indexToUserId,
            pc, loc, hist, lastCall>>

\* the matrix-factorization page is not open
MFNotLoaded ==
  /\ files = [lines |-> <<>>, fetch |-> "ok"]
  /\ movies = <<>>
  /\ ratings = <<>>
  /\ userIdToIndex = EmptyMap
  /\ itemIdToIndex = EmptyMap
  /\ options = {}
  /\ status = Status("loading")
  /\ mu = 0
  /\ bu = EmptyArr
  /\ bi = EmptyArr
  /\ P = EmptyArr
  /\ Q = EmptyArr
  /\ Qunit = EmptyArr
  /\ trainedOK = FALSE
  /\ indexToItemId = EmptyArr
  /\ indexToUserId = EmptyArr
  /\ pc = "loading"
  /\ loc = NoLoc
  /\ hist = NoHist
  /\ lastCall = NoCall

\* vectors of NUM_GENRES non-negative whole numbers
CosineVectors == [0..(NUM_GENRES - 1) -> 0..2]

\* the call cosineSimilarity(vecA, vecB) on the two vectors at hand
CallCosine ==
  /\ ~page.cos.called
  /\ page' = [page EXCEPT !.cos.score = cosineSimilarity(page.cos.vecA, page.cos.vecB),
                          !.cos.called = TRUE]
  /\ UNCHANGED mfVars

CosineInit ==
  /\ MFNotLoaded
  /\ \E vecA, vecB \in CosineVectors :
       page = [NoPage EXCEPT !.cos = [vecA |-> vecA, vecB |-> vecB, score |-> 0,
                                      called |-> FALSE]]

CosineSpec == CosineInit /\ [][CallCosine]_vars

(* ---------------- hwweek2/data.js: parseItemData ---------------- *)
\* the genre names, in the order of the vector's dimensions; the model uses
\* the first NUM_GENRES of them
GENRE_NAMES == <<"Action", "Adventure", "Animation", "Children's", "Comedy", "Crime",
                 "Documentary", "Drama", "Fantasy", "Film-Noir", "Horror", "Musical",
                 "Mystery", "Romance", "Sci-Fi", "Thriller", "War", "Western">>

\* number of fields of a u.item line before its genre flags
\* (id|title|release date|video release date|url)
META_FIELDS == 5

\* a line of u.item: blank, or an id and the flag fields that follow the
\* META_FIELDS leading fields (fields[META_FIELDS + n - 1] is flags[n])
BlankLine == [blank |-> TRUE, id |-> Undefined, flags |-> <<>>]
ItemLine(id, flags) == [blank |-> FALSE, id |-> id, flags |-> flags]

\* fields.slice(5, 23) of a line: the fields at META_FIELDS ..
\* META_FIELDS + NUM_GENRES - 1, fewer when the line is shorter
genreFlags(line) == SubSeq(line.flags, 1, Min(NUM_GENRES, Len(line.flags)))

\* vector[i] = parseInt(genreFlags[i]) || 0 for i < GENRE_NAMES.length
vectorOf(gf) == [i \in 0..(NUM_GENRES - 1) |-> IF i + 1 <= Len(gf) THEN gf[i + 1] ELSE 0]

\* genres: GENRE_NAMES[i] pushed for each flag equal to 1, in order of i
RECURSIVE genresFrom(_, _)
genresFrom(vector, i) ==
  IF i >= NUM_GENRES THEN <<>>
  ELSE (IF vector[i] = 1 THEN <<GENRE_NAMES[i + 1]>> ELSE <<>>) \o genresFrom(vector, i + 1)

\* parseItemData(text): the movies pushed for the lines from n on
RECURSIVE parseItemData(_, _)
parseItemData(text, n) ==
  IF n > Len(text) THEN <<>>
  ELSE IF text[n].blank THEN parseItemData(text, n + 1)
       ELSE LET vector == vectorOf(genreFlags(text[n]))
            IN  <<[id |-> text[n].id, genres |-> genresFrom(vector, 0), vector |-> vector]>>
                \o parseItemData(text, n + 1)

(* ---------------- hwweek2/script.js: the page ---------------- *)
\* largest number of clicks on the button
MaxClicks == 3

\* the result box: kind of message, the liked movie and the recommendations
\* shown, and the click whose handler or timer wrote it
Result(kind, liked, recs, click) ==
  [kind |-> kind, liked |-> liked, recs |-> recs, click |-> click]

\* window.onload: the loading message, loadData (parseItemData on the item
\* text, then the "Data loaded" message), populateMoviesDropdown, the button
\* enabled and its click listener attached
PageLoad ==
  /\ ~page.loaded
  /\ page' = [page EXCEPT !.movies = page.movies \o parseItemData(page.text, 1),
                          !.result = Result("loaded", Undefined, <<>>, 0),
                          !.loaded = TRUE]
  /\ UNCHANGED mfVars

\* the value of the first <option> of the page, which populateMoviesDropdown
\* keeps: a number that is no movie id (parseInt("") is NaN, written Undefined)
PlaceholderId == 0

\* the values the select can hold: the kept first option and one option per movie
SelectValues == {Undefined, PlaceholderId} \cup {page.movies[n].id : n \in 1..Len(page.movies)}

\* the user picks an option of #movie-select
SelectMovie ==
  /\ page.loaded
  /\ \E v \in SelectValues : v # page.value /\ page' = [page EXCEPT !.value = v]
  /\ UNCHANGED mfVars

\* movies.find(m => m.id === selectedId): position of the first match, 0 for none
find(ms, selectedId) ==
  LET hits == {n \in 1..Len(ms) : ms[n].id = selectedId}
  IN  IF hits = {} THEN 0 ELSE CHOOSE n \in hits : \A h \in hits : n <= h

\* movies.filter(m => m.id !== likedMovie.id).map(... score ...), in order:
\* <<[pos, id, key = score]>>
RECURSIVE scoredFrom(_, _, _)
scoredFrom(ms, likedMovie, n) ==
  IF n > Len(ms) THEN <<>>
  ELSE (IF ms[n].id # likedMovie.id
        THEN <<[pos |-> n, id |-> ms[n].id,
                key |-> cosineSimilarity(likedMovie.vector, ms[n].vector)]>>
        ELSE <<>>)
       \o scoredFrom(ms, likedMovie, n + 1)

\* the two best candidates in loop order, without the sort
topTwo_Unsorted(ms, likedMovie) == slice(scoredFrom(ms, likedMovie, 1), 2)

\* scoredMovies.sort((a, b) => b.score - a.score); slice(0, 2)
topTwo(ms, likedMovie) == slice(sortDesc(scoredFrom(ms, likedMovie, 1)), 2)

\* displayRecommendations(likedMovie, recommendations)
displayRecommendations(likedMovie, recommendations, click) ==
  IF Len(recommendations) = 0 THEN Result("none", likedMovie.id, <<>>, click)
  ELSE Result("recs", likedMovie.id, recommendations, click)

\* a click on the button: getRecommendations up to the setTimeout call, which
\* queues a timer holding likedMovie; value and pending record the selection
\* of the click and the selections of the timers not yet fired at the click
ClickRecommend ==
  /\ page.loaded
  /\ page.clicks < MaxClicks
  /\ LET click == page.clicks + 1
         selectedId == page.value
         pos == find(page.movies, selectedId)
         counted == [page EXCEPT !.clicks = click,
                                 !.lastClick = [click |-> click, value |-> selectedId]]
     IN  page' = IF selectedId = Undefined
                 THEN [counted EXCEPT !.result = Result("selectFirst", Undefined, <<>>, click)]
                 ELSE IF pos = 0
                 THEN [counted EXCEPT !.result = Result("notFound", Undefined, <<>>, click)]
                 ELSE [counted EXCEPT
                         !.result = Result("finding", Undefined, <<>>, click),
                         !.timers = Append(page.timers,
                                           [likedMovie |-> page.movies[pos], click |-> click,
                                            value |-> selectedId,
                                            pending |-> [n \in 1..Len(page.timers) |->
                                                           page.timers[n].value]])]
  /\ UNCHANGED mfVars

\* the timer that fires is the last one queued
TimerFire_LastFirst ==
  /\ page.timers # <<>>
  /\ LET t == page.timers[Len(page.timers)]
     IN  page' = [page EXCEPT
                    !.timers = SubSeq(page.timers, 1, Len(page.timers) - 1),
                    !.overlap = t.pending,
                    !.result = displayRecommendations(t.likedMovie,
                                 topTwo(page.movies, t.likedMovie), t.click)]
  /\ UNCHANGED mfVars

\* a 500 ms timer fires: timers of equal delay run in the order they were
\* set; overlap keeps the pending record of the timer that fired last
TimerFire ==
  /\ page.timers # <<>>
  /\ LET t == Head(page.timers)
     IN  page' = [page EXCEPT
                    !.timers = Tail(page.timers),
                    !.overlap = t.pending,
                    !.result = displayRecommendations(t.likedMovie,
                                 topTwo(page.movies, t.likedMovie), t.click)]
  /\ UNCHANGED mfVars

\* the flags of a movie of the given genres (positions in GENRE_NAMES), on a
\* line without, or with, the leading "unknown" flag of u.item
FlagsOf(S) == [n \in 1..NUM_GENRES |-> IF n \in S THEN 1 ELSE 0]
FlagsWithUnknown(S) == <<0>> \o FlagsOf(S)

\* item texts of the page: no movie, one movie, and catalogues with equal
\* vectors, a movie without genres, a blank line and a line of u.item's width
ContentTexts ==
  { <<>>,
    <<ItemLine(1, FlagsOf({1, 2}))>>,
    <<ItemLine(1, FlagsOf({1, 2})), ItemLine(2, FlagsOf({})), ItemLine(3, FlagsOf({1}))>>,
    <<ItemLine(1, FlagsOf({1, 2, 3})), ItemLine(2, FlagsOf({1, 2, 3})), ItemLine(3, FlagsOf({3}))>>,
    <<ItemLine(1, FlagsWithUnknown({1, 3})), BlankLine, ItemLine(2, FlagsOf({2})),
      ItemLine(3, FlagsOf({2, 3})), ItemLine(4, FlagsOf({2}))>> }

ContentInit ==
  /\ MFNotLoaded
  /\ \E text \in ContentTexts : page = [NoPage EXCEPT !.text = text]

ContentNext == PageLoad \/ SelectMovie \/ ClickRecommend \/ TimerFire

ContentSpec == ContentInit /\ [][ContentNext]_vars

(* ---------------- parseItemData on any item text ---------------- *)
\* largest number of lines of an item text
MaxItemLines == 2

\* what follows the id on a line: nothing on a blank line, else the flags of
\* a line of 5 + NUM_GENRES fields or of 6 + NUM_GENRES fields (u.item has
\* the flag "unknown" before the NUM_GENRES named ones)
ItemLineBodies ==
  {[blank |-> TRUE, flags |-> <<>>]}
  \cup {[blank |-> FALSE, flags |-> flags] : flags \in [1..NUM_GENRES -> {0, 1}]}
  \cup {[blank |-> FALSE, flags |-> flags] : flags \in [1..(NUM_GENRES + 1) -> {0, 1}]}

\* the text whose lines are numbered by position, as the ids of u.item are
NumberedText(bodies) ==
  [n \in 1..Len(bodies) |-> IF bodies[n].blank THEN BlankLine
                            ELSE ItemLine(n, bodies[n].flags)]

ItemParseInit ==
  /\ MFNotLoaded
  /\ \E len \in 0..MaxItemLines :
       \E bodies \in [1..len -> ItemLineBodies] :
         page = [NoPage EXCEPT !.text = NumberedText(bodies)]

ItemParseSpec == ItemParseInit /\ [][PageLoad]_vars

\* the host resumes every suspended trainMF and the script runs on
FairSpec == Spec /\ WF_vars(TrainerNext)

TypeOK ==
  /\ pc \in {"loading", "check", "init", "epoch", "sample", "bias", "factor", "yield",
             "epochEnd", "epochYield", "build", "ready", "failed"}
  /\ trainedOK \in BOOLEAN

(* ---------------- properties ---------------- *)
ItemCount == MapSize(itemIdToIndex)
CalledTopK == lastCall.fn = "topKSimilarItems"
ValidItem(id) == MapHas(itemIdToIndex, id)
ListIds(list) == {list[n].itemId : n \in 1..Len(list)}

\* C1: while training has not completed all epochs (before it starts, at every
\* yield point, after a failure), Qunit is empty and trainedOK is false, and a
\* call made then returns nothing computed from the item factors:
\* topKSimilarItems returns the empty list and getRecommendations does not
\* take the latent-space path.
C1_NoPartialModelExposed ==
  pc # "ready" =>
    /\ ALen(Qunit) = 0
    /\ ~trainedOK
    /\ (CalledTopK => lastCall.list = <<>>)
    /\ (lastCall.fn = "getRecommendations" => lastCall.via # "latent")

\* a query for a valid item at a yield point after some updates were applied
C1_Witness ==
  /\ pc = "yield"
  /\ hist.updates > 0
  /\ Q # hist.pre.Q
  /\ CalledTopK
  /\ ValidItem(lastCall.itemId)
  /\ lastCall.k > 0

\* C2: when trainMF is entered with no ratings, no user index or no item index,
\* it fails with the empty-dataset error and mu, bu, bi, P, Q, Qunit,
\* indexToItemId and indexToUserId are what they were.
C2_EmptyDatasetFailsFirst ==
  [][(pc = "check" /\ (Len(ratings) = 0 \/ MapSize(userIdToIndex) = 0
                       \/ MapSize(itemIdToIndex) = 0))
       => (pc' = "failed" /\ status'.kind = "failedEmpty" /\ UNCHANGED model)]_vars

\* trainMF has failed on an empty dataset
C2_Witness ==
  /\ pc = "failed"
  /\ status.kind = "failedEmpty"
  /\ Len(ratings) = 0

\* C3: the list returned by topKSimilarItems(itemId, k) for an item that has an
\* index never contains itemId, for every k.
C3_SelfExcluded ==
  (CalledTopK /\ ValidItem(lastCall.itemId)) => lastCall.itemId \notin ListIds(lastCall.list)

\* a trained model answered with two other items
C3_Witness ==
  /\ pc = "ready"
  /\ CalledTopK
  /\ ValidItem(lastCall.itemId)
  /\ Len(lastCall.list) >= 2

\* the similarity of items with indices i and j in the built index
SimOf(i, j) == dot(Qunit[i], Qunit[j])
ListIdxs(list) == {itemIdToIndex[list[n].itemId] : n \in 1..Len(list)}

\* the last call returned exactly min(k, I-1) entries, all different items, in
\* non-increasing order of similarity, each with its cosine, and every other
\* item left out has a similarity no greater than the last one returned
RankedTopK ==
  LET list == lastCall.list
      i == itemIdToIndex[lastCall.itemId]
  IN  /\ Len(list) = Min(lastCall.k, ItemCount - 1)
      /\ Cardinality(ListIds(list)) = Len(list)
      /\ ListIds(list) \subseteq DOMAIN itemIdToIndex
      /\ \A n \in 1..Len(list) : list[n].sim = SimOf(i, itemIdToIndex[list[n].itemId])
      /\ \A n \in 1..(Len(list) - 1) : list[n].sim >= list[n + 1].sim
      /\ \A j \in DOMAIN Qunit :
           (j # i /\ j \notin ListIdxs(list)) =>
             (Len(list) > 0 /\ SimOf(i, j) <= list[Len(list)].sim)

\* C4 (as stated): for a valid item and k > 0, topKSimilarItems returns exactly
\* min(k, I-1) entries, ordered by similarity non-increasing, and every item
\* left out has similarity no greater than the last item returned.
C4_TopKRankedAlways ==
  (CalledTopK /\ ValidItem(lastCall.itemId) /\ lastCall.k > 0) => RankedTopK

\* C4 (amended): once training has completed and the index is built, for a
\* valid item and k > 0, topKSimilarItems returns exactly min(k, I-1) entries,
\* ordered by similarity non-increasing, and every item left out has
\* similarity no greater than the last item returned.
C4_TopKRanked ==
  (pc = "ready" /\ CalledTopK /\ ValidItem(lastCall.itemId) /\ lastCall.k > 0) => RankedTopK

\* k = 1 with three items: one candidate returned, a strictly less similar
\* one left out
C4_Witness ==
  /\ pc = "ready"
  /\ CalledTopK
  /\ ValidItem(lastCall.itemId)
  /\ lastCall.k = 1
  /\ ItemCount = 3
  /\ Len(lastCall.list) = 1
  /\ \E j \in DOMAIN Qunit :
       /\ j # itemIdToIndex[lastCall.itemId]
       /\ SimOf(itemIdToIndex[lastCall.itemId], j) < lastCall.list[1].sim

\* C5: topKSimilarItems called with k <= 0 returns an empty sequence.
C5_NonPositiveKEmpty ==
  (CalledTopK /\ lastCall.k <= 0) => lastCall.list = <<>>

\* C6: topKSimilarItems called with an item id that has no entry in
\* itemIdToIndex returns the empty list and does not throw, at every point
\* where it can be called.
C6_UnknownItemEmpty ==
  (CalledTopK /\ ~ValidItem(lastCall.itemId)) =>
    (~lastCall.threw /\ lastCall.list = <<>>)

\* an unknown id queried against a built index of several items
C6_Witness ==
  /\ pc = "ready"
  /\ ALen(Qunit) >= 2
  /\ CalledTopK
  /\ ~ValidItem(lastCall.itemId)
  /\ lastCall.k > 0

\* the residual of the current sample, from the parameters as they were when
\* its update started
PreResidual ==
  loc.r - (mu + hist.pre.bu[loc.u] + hist.pre.bi[loc.i]
           + dot(hist.pre.P[loc.u], hist.pre.Q[loc.i]))

\* C7: in one update, for every dimension d already processed, the new P[u][d]
\* and the new Q[i][d] are p + LR*(e*q - REG*p) and q + LR*(e*p - REG*q) for the
\* pair (p, q) of values before the update and the residual e computed before
\* the bias updates.
C7_SamePreUpdatePair ==
  pc = "factor" =>
    /\ loc.e = PreResidual
    /\ \A d \in 0..(loc.k - 1) :
         LET p == hist.pre.P[loc.u][d]
             q == hist.pre.Q[loc.i][d]
         IN  /\ P[loc.u][d] = p + Mul(LR, Mul(loc.e, q) - Mul(REG, p))
             /\ Q[loc.i][d] = q + Mul(LR, Mul(loc.e, p) - Mul(REG, q))

\* all K dimensions of a sample updated, with non-zero factors and residual
C7_Witness ==
  /\ pc = "factor"
  /\ loc.k = K
  /\ loc.e # 0
  /\ hist.updates > 0
  /\ \E d \in 0..(K - 1) :
       /\ hist.pre.P[loc.u][d] # 0
       /\ hist.pre.Q[loc.i][d] # 0
       /\ P[loc.u][d] # hist.pre.P[loc.u][d]
       /\ Q[loc.i][d] # hist.pre.Q[loc.i][d]

\* the index triplets of the ratings, in file order
OriginalTriplets == [n \in 1..Len(ratings) |-> triplet(ratings[n])]
CountIn(seq, x) == Cardinality({n \in 1..Len(seq) : seq[n] = x})
SameBag(a, b) ==
  /\ Len(a) = Len(b)
  /\ \A x \in SeqToSet(a) \cup SeqToSet(b) : CountIn(a, x) = CountIn(b, x)

C8_Counts ==
  /\ hist.updates <= EPOCHS * Len(ratings)
  /\ (pc = "epochEnd" =>
        /\ SameBag(hist.used, OriginalTriplets)
        /\ hist.updates = loc.epoch * Len(ratings))
  /\ (pc \in {"build", "ready"} =>
        /\ hist.passes = EPOCHS
        /\ hist.updates = EPOCHS * Len(ratings))

\* C8: a run that passes the precondition check makes exactly EPOCHS passes;
\* at the end of each pass the samples used are the rating events, each once,
\* whatever the shuffle; the run applies EPOCHS * |ratings| updates, and, the
\* host resuming every yield, it reaches its end.
C8_FixedPasses ==
  /\ []C8_Counts
  /\ (pc = "init") ~> (pc = "ready")

\* a shuffled pass over three ratings has ended in another order than the file's
C8_Witness ==
  /\ pc = "ready"
  /\ Len(ratings) = 3
  /\ hist.used # OriginalTriplets
  /\ hist.updates = EPOCHS * 3

\* C9: the trainer never applies more than YIELD_EVERY updates without
\* suspending; it suspends inside an epoch only when YIELD_EVERY updates were
\* applied since the last suspension, and at the end of an epoch only after the
\* last sample; the epoch counter advances only from the suspension at the end
\* of the epoch.
C9_YieldCadence ==
  /\ [](/\ hist.sinceSuspend <= YIELD_EVERY
        /\ (pc = "yield" => hist.sinceSuspend = YIELD_EVERY /\ loc.sinceYield = 0)
        /\ (pc = "epochYield" => loc.idx > Len(loc.triplets)))
  /\ [][(pc \in {"epoch", "sample", "bias", "factor", "yield", "epochEnd", "epochYield"}
          /\ loc'.epoch # loc.epoch)
        => (pc = "epochYield" /\ loc'.epoch = loc.epoch + 1)]_vars

\* suspended on the cadence in the middle of an epoch
C9_Witness ==
  /\ pc = "yield"
  /\ hist.sinceSuspend = YIELD_EVERY
  /\ loc.idx <= Len(loc.triplets)

\* the parameters after the whole update of the current sample, from the
\* parameters as they were when the update started
FullUpdate ==
  LET pre == hist.pre
      u == loc.u
      i == loc.i
      e == PreResidual
  IN  [bu |-> [pre.bu EXCEPT ![u] = pre.bu[u] + Mul(LR, e - Mul(REG, pre.bu[u]))],
       bi |-> [pre.bi EXCEPT ![i] = pre.bi[i] + Mul(LR, e - Mul(REG, pre.bi[i]))],
       P |-> [pre.P EXCEPT ![u] = [d \in 0..(K - 1) |->
                pre.P[u][d] + Mul(LR, Mul(e, pre.Q[i][d]) - Mul(REG, pre.P[u][d]))]],
       Q |-> [pre.Q EXCEPT ![i] = [d \in 0..(K - 1) |->
                pre.Q[i][d] + Mul(LR, Mul(e, pre.P[u][d]) - Mul(REG, pre.Q[i][d]))]]]

\* C10: at every point where the trainer is suspended (and after it returned),
\* the last update started is fully applied: both biases and all K
\* dimensions of both factor rows, and nothing else, differ from the
\* parameters before it.
C10_NoHalfAppliedUpdate ==
  (pc \in {"yield", "epochYield", "ready"} /\ hist.used # <<>>) =>
    [bu |-> bu, bi |-> bi, P |-> P, Q |-> Q] = FullUpdate

\* a handler runs at a cadence yield after an update that changed the factors
C10_Witness ==
  /\ pc = "yield"
  /\ lastCall.fn = "getRecommendations"
  /\ P # hist.pre.P
  /\ Q # hist.pre.Q
  /\ bu # hist.pre.bu

LogKinds == {hist.log[n].kind : n \in 1..Len(hist.log)}

\* C11: on a successful run the statuses are: one training-start status, then
\* one epoch status per epoch with the numbers 1, 2, ..., EPOCHS in order and
\* total EPOCHS, then one 'Model ready'; until then the statuses shown are a
\* prefix of that sequence, and trainedOK becomes true only in the step that
\* shows 'Model ready', after the status of the last epoch.
C11_StatusSequence ==
  /\ [](/\ (pc \notin {"loading", "failed"} =>
              /\ Len(hist.log) >= 1
              /\ Len(hist.log) <= EPOCHS + 2
              /\ hist.log[1].kind = "training"
              /\ \A n \in 2..Len(hist.log) :
                   IF n <= EPOCHS + 1
                   THEN /\ hist.log[n].kind = "epoch"
                        /\ hist.log[n].epoch = n - 1
                        /\ hist.log[n].total = EPOCHS
                   ELSE hist.log[n].kind = "ready")
        /\ (pc = "ready" => Len(hist.log) = EPOCHS + 2)
        /\ (trainedOK => pc = "ready"))
  /\ [][(~trainedOK /\ trainedOK') =>
          /\ status'.kind = "ready"
          /\ hist.log[Len(hist.log)].kind = "epoch"
          /\ hist.log[Len(hist.log)].epoch = EPOCHS
          /\ hist'.log = Append(hist.log, status')]_vars

\* a successful run has shown 'Model ready'
C11_Witness ==
  /\ pc = "ready"
  /\ trainedOK
  /\ status.kind = "ready"
  /\ Len(hist.log) = EPOCHS + 2

FailedKinds == {"failedEmpty", "failedTypeError"}

\* once trainMF has thrown: the status set by the catch is a 'Training failed'
\* message naming the error, 'Model ready' is never shown, trainedOK stays
\* false and the run stays failed
FailureIsFinal ==
  /\ [](pc = "failed" =>
          /\ ~trainedOK
          /\ hist.log[Len(hist.log)].kind \in FailedKinds
          /\ "ready" \notin LogKinds
          /\ status.kind \in FailedKinds \cup {"noMovies", "fallback"})
  /\ [][/\ (pc # "failed" /\ pc' = "failed") =>
             (status'.kind \in FailedKinds /\ ~trainedOK')
        /\ pc = "failed" => (pc' = "failed" /\ ~trainedOK')]_vars

ClickedFallback == lastCall.fn = "getRecommendations" /\ lastCall.via = "fallback"

HasInvalidIndex ==
  \E n \in 1..Len(ratings) :
    \/ MapGet(userIdToIndex, ratings[n].userId) \notin 0..(MapSize(userIdToIndex) - 1)
    \/ MapGet(itemIdToIndex, ratings[n].itemId) \notin 0..(MapSize(itemIdToIndex) - 1)

FirstUserPos(id) == CHOOSE n \in 1..Len(ratings) :
  ratings[n].userId = id /\ \A m \in 1..(n - 1) : ratings[m].userId # id
FirstItemPos(id) == CHOOSE n \in 1..Len(ratings) :
  ratings[n].itemId = id /\ \A m \in 1..(n - 1) : ratings[m].itemId # id

DenseInjective(m) ==
  /\ \A a, b \in DOMAIN m : m[a] = m[b] => a = b
  /\ {m[a] : a \in DOMAIN m} = 0..(MapSize(m) - 1)

\* C15: after parseRatingData, userIdToIndex and itemIdToIndex are injective
\* with the values 0..size-1, an id that first appears earlier among the
\* retained ratings has the smaller index, and the ids with an entry are
\* exactly the ids of the retained ratings.
C15_DenseIndexMaps ==
  pc # "loading" =>
    /\ DenseInjective(userIdToIndex)
    /\ DenseInjective(itemIdToIndex)
    /\ DOMAIN userIdToIndex = {ratings[n].userId : n \in 1..Len(ratings)}
    /\ DOMAIN itemIdToIndex = {ratings[n].itemId : n \in 1..Len(ratings)}
    /\ \A a, b \in DOMAIN userIdToIndex :
         userIdToIndex[a] < userIdToIndex[b] <=> FirstUserPos(a) < FirstUserPos(b)
    /\ \A a, b \in DOMAIN itemIdToIndex :
         itemIdToIndex[a] < itemIdToIndex[b] <=> FirstItemPos(a) < FirstItemPos(b)

\* a text with a skipped line and repeated ids was parsed
C15_Witness ==
  /\ pc = "check"
  /\ BadLine \in SeqToSet(files.lines)
  /\ MapSize(userIdToIndex) = 2
  /\ MapSize(itemIdToIndex) = 2
  /\ Len(ratings) > MapSize(itemIdToIndex)
  /\ ratings[1].itemId = ratings[2].itemId

IsRatingLine(l) == l # BadLine
ValidLines == SelectSeq(files.lines, IsRatingLine)

\* C16: after parseRatingData, ratings holds at most MAX_RATINGS events, they
\* are the first valid lines of the text in file order, and the index maps
\* hold no id that only a later line carries.
C16_CappedPrefix ==
  pc # "loading" =>
    LET expected == IF files.fetch = "ok"
                    THEN SubSeq(ValidLines, 1, Min(Len(ValidLines), MAX_RATINGS))
                    ELSE <<>>
    IN  /\ Len(ratings) <= MAX_RATINGS
        /\ ratings = expected
        /\ DOMAIN userIdToIndex = {expected[n].userId : n \in 1..Len(expected)}
        /\ DOMAIN itemIdToIndex = {expected[n].itemId : n \in 1..Len(expected)}

\* the text has more valid lines than the cap, and the first line cut off
\* carries an item that no retained rating has
C16_Witness ==
  /\ pc = "check"
  /\ Len(ratings) = MAX_RATINGS
  /\ Len(ValidLines) > MAX_RATINGS
  /\ BadLine \in SeqToSet(files.lines)
  /\ ~MapHas(itemIdToIndex, ValidLines[MAX_RATINGS + 1].itemId)

\* the parameters have been allocated by trainMF
Initialised ==
  pc \in {"epoch", "sample", "bias", "factor", "yield", "epochEnd", "epochYield",
          "build", "ready"}

Shapes ==
  [P |-> DOMAIN P, Q |-> DOMAIN Q, bu |-> DOMAIN bu, bi |-> DOMAIN bi,
   rowsP |-> {DOMAIN P[x] : x \in DOMAIN P}, rowsQ |-> {DOMAIN Q[x] : x \in DOMAIN Q}]

\* C17: from initialisation to the end of the run P has one row per user
\* index, Q one row per item index, bu and bi have U and I entries, every row
\* of P and Q has K entries, and no step changes these shapes.
C17_ShapesFixed ==
  /\ [](Initialised =>
          /\ DOMAIN P = 0..(MapSize(userIdToIndex) - 1)
          /\ DOMAIN Q = 0..(MapSize(itemIdToIndex) - 1)
          /\ DOMAIN bu = 0..(MapSize(userIdToIndex) - 1)
          /\ DOMAIN bi = 0..(MapSize(itemIdToIndex) - 1)
          /\ \A x \in DOMAIN P : DOMAIN P[x] = 0..(K - 1)
          /\ \A x \in DOMAIN Q : DOMAIN Q[x] = 0..(K - 1))
  /\ [][Initialised => Shapes' = Shapes]_vars

\* a finished run on two users and three items whose parameters were updated
C17_Witness ==
  /\ pc = "ready"
  /\ MapSize(userIdToIndex) = 2
  /\ MapSize(itemIdToIndex) = 3
  /\ hist.updates = EPOCHS * Len(ratings)
  /\ P # hist.pre.P

ZeroRow == [k \in 0..(K - 1) |-> 0]
ZeroNorm(j) == l2norm(Q[j]) = 0
LatentCall == lastCall.fn \in {"topKSimilarItems", "getRecommendations"} /\ lastCall.via = "latent"

\* C18: the normalized index has one row of K entries per item; the row of an
\* item whose factor vector has norm 0 is the zero vector (no component is
\* the result of a division by zero), and in every result of
\* topKSimilarItems such an item has similarity 0 with every other item.
C18_ZeroNormRows ==
  pc = "ready" =>
    /\ DOMAIN Qunit = 0..(MapSize(itemIdToIndex) - 1)
    /\ \A j \in DOMAIN Qunit :
         /\ DOMAIN Qunit[j] = 0..(K - 1)
         /\ \A k \in DOMAIN Qunit[j] : Qunit[j][k] # NaN
         /\ ZeroNorm(j) => Qunit[j] = ZeroRow
    /\ (LatentCall /\ ~lastCall.threw) =>
         \A n \in 1..Len(lastCall.list) :
           (\/ ZeroNorm(itemIdToIndex[lastCall.itemId])
            \/ ZeroNorm(itemIdToIndex[lastCall.list[n].itemId]))
             => lastCall.list[n].sim = 0

\* after training, one item has a zero factor vector, another has not, and
\* a query returns the zero-norm item in its result
C18_Witness ==
  /\ pc = "ready"
  /\ lastCall.fn = "topKSimilarItems"
  /\ MapHas(itemIdToIndex, lastCall.itemId)
  /\ ~ZeroNorm(itemIdToIndex[lastCall.itemId])
  /\ \E n \in 1..Len(lastCall.list) :
       /\ ZeroNorm(itemIdToIndex[lastCall.list[n].itemId])
       /\ lastCall.list[n].sim = 0

\* the similarity that topKSimilarItems(itemId, k) reports for item other, as
\* a set: empty when other is not in the result
SimReported(itemId, k, other) ==
  LET res == topKSimilarItems(itemId, k).list
  IN  {res[n].sim : n \in {m \in 1..Len(res) : res[m].itemId = other}}

\* C19: for two distinct valid items i and j and every k, k2 for which j is
\* in topKSimilarItems(i, k) and i is in topKSimilarItems(j, k2), the two
\* reported similarities are equal; with k2 the number of items, i is there.
C19_SimilaritySymmetric ==
  (lastCall.fn = "topKSimilarItems" /\ ~lastCall.threw) =>
    \A n \in 1..Len(lastCall.list) :
      LET i == lastCall.itemId
          j == lastCall.list[n].itemId
      IN  /\ j # i
          /\ SimReported(j, ItemCount, i) = {lastCall.list[n].sim}
          /\ \A k2 \in QueryKs : SimReported(j, k2, i) \subseteq {lastCall.list[n].sim}

\* a query on a trained model of three items returned two items with
\* similarities that are not both the same
C19_Witness ==
  /\ pc = "ready"
  /\ lastCall.fn = "topKSimilarItems"
  /\ Len(lastCall.list) = 2
  /\ lastCall.list[1].sim # lastCall.list[2].sim
  /\ lastCall.list[1].sim # 0

RatingSum == SumRatings(ratings, 1)

\* C20: for a non-empty rating set mu is the sum of the ratings divided by
\* their count (on the grid of the model: the largest grid number not above
\* the quotient), and no step after the initialisation changes mu.
C20_GlobalMean ==
  /\ [](Initialised =>
          /\ Len(ratings) > 0
          /\ mu * Len(ratings) <= RatingSum
          /\ RatingSum < (mu + 1) * Len(ratings))
  /\ [][Initialised => mu' = mu]_vars

\* a finished run on three ratings whose mean is not a whole number
C20_Witness ==
  /\ pc = "ready"
  /\ Len(ratings) = 3
  /\ hist.updates = EPOCHS * 3
  /\ mu * 3 # RatingSum
  /\ mu > 3 * SCALE

\* what loadData left in the globals of data.js
Loaded == IF files.fetch = "ok" THEN parseRatingData(files.lines) ELSE parseRatingData(<<>>)

\* C21: trainMF never changes the rating events or the index maps: at every
\* point of the training and after it, ratings has the elements loadData
\* parsed, in the same order, and both maps are as loadData left them; the
\* shuffle permutes only the local triplets.
C21_InputsNotMutated ==
  pc # "loading" =>
    /\ ratings = Loaded.ratings
    /\ userIdToIndex = Loaded.userIdToIndex
    /\ itemIdToIndex = Loaded.itemIdToIndex
    /\ (Initialised => SameBag(loc.triplets, OriginalTriplets))

\* a finished run whose last shuffle left the triplets in another order than
\* the ratings
C21_Witness ==
  /\ pc = "ready"
  /\ Len(ratings) = 3
  /\ loc.triplets # OriginalTriplets
  /\ hist.passes = EPOCHS

\* C22: once training has returned, no call of topKSimilarItems or
\* getRecommendations changes mu, bu, bi, P, Q, Qunit or an index map, and
\* the result of the last query is what the same query returns when it is
\* repeated on the model as it now stands.
C22_QueriesOnlyRead ==
  /\ [][pc = "ready" =>
          /\ model' = model
          /\ userIdToIndex' = userIdToIndex
          /\ itemIdToIndex' = itemIdToIndex
          /\ trainedOK']_vars
  /\ []((pc = "ready" /\ lastCall.via = "latent" /\ lastCall.fn # "none") =>
          /\ lastCall.list = topKSimilarItems(lastCall.itemId, lastCall.k).list
          /\ lastCall.threw = topKSimilarItems(lastCall.itemId, lastCall.k).threw)

\* after training a query has answered with a non-empty list
C22_Witness ==
  /\ pc = "ready"
  /\ lastCall.fn = "getRecommendations"
  /\ lastCall.via = "latent"
  /\ Len(lastCall.list) = 2

Params == [bu |-> bu, bi |-> bi, P |-> P, Q |-> Q]

\* C23: the parameters are a function of the ratings, the index maps and the
\* random draws alone: whenever trainMF is between two updates, suspended or
\* has returned, bu, bi, P and Q are the initial draw with the updates of the
\* samples taken so far (in the order the shuffles gave) applied one after
\* the other, whatever ran while trainMF was suspended; mu is the mean of the
\* ratings and Qunit the normalised rows of that Q.
C23_Deterministic ==
  /\ pc \in {"epoch", "sample", "yield", "epochEnd", "epochYield", "build", "ready"} =>
       /\ Params = hist.ref
       /\ mu = mean(RatingSum, Len(ratings))
  /\ pc = "ready" => Qunit = [x \in DOMAIN hist.ref.Q |-> normalize(hist.ref.Q[x])]

\* a finished run on three ratings, after a query on the built index
C23_Witness ==
  /\ pc = "ready"
  /\ Len(ratings) = 3
  /\ hist.updates = EPOCHS * 3
  /\ lastCall.fn = "topKSimilarItems"
  /\ Params = hist.ref
  /\ Params # hist.pre

\* C24: cosineSimilarity returns 0 when a vector has magnitude 0; for two
\* vectors of non-negative numbers of equal length the result is at least 0
\* and at most 1, and it is the same with the arguments exchanged.
C24_CosineInUnitRange ==
  page.cos.called =>
    LET a == page.cos.vecA
        b == page.cos.vecB
    IN  /\ (SumProducts(a, a, 0) = 0 \/ SumProducts(b, b, 0) = 0) => page.cos.score = 0
        /\ page.cos.score >= 0
        /\ page.cos.score <= FOne
        /\ page.cos.score = cosineSimilarity(b, a)

\* C25: a timer of the content-based getRecommendations shows
\* min(2, number of candidates) movies, none with the id of the liked movie,
\* each with its cosine score against the liked movie's vector, in
\* non-increasing score order, and no candidate left out scores higher than
\* one shown; a click whose selected id is no movie's id queues no timer and
\* shows the not-found error without recommendations.
Shown == page.result

Candidates(likedId) == {n \in 1..Len(page.movies) : page.movies[n].id # likedId}

C25_TopTwoBySimilarity ==
  /\ Shown.kind \in {"recs", "none"} =>
       LET likedMovie == page.movies[find(page.movies, Shown.liked)]
           recs == Shown.recs
           Score(n) == cosineSimilarity(likedMovie.vector, page.movies[n].vector)
           shownPos == {recs[x].pos : x \in 1..Len(recs)}
       IN  /\ Len(recs) = Min(2, Cardinality(Candidates(Shown.liked)))
           /\ Cardinality(shownPos) = Len(recs)
           /\ \A x \in 1..Len(recs) :
                /\ recs[x].pos \in Candidates(Shown.liked)
                /\ recs[x].id = page.movies[recs[x].pos].id
                /\ recs[x].key = Score(recs[x].pos)
           /\ \A x, y \in 1..Len(recs) : x < y => recs[x].key >= recs[y].key
           /\ \A n \in Candidates(Shown.liked) \ shownPos :
                \A x \in 1..Len(recs) : Score(n) <= recs[x].key
           /\ (Shown.kind = "none") = (recs = <<>>)
  /\ (page.clicks > 0 /\ page.lastClick.value # Undefined
        /\ find(page.movies, page.lastClick.value) = 0) =>
       /\ \A t \in 1..Len(page.timers) : page.timers[t].click # page.lastClick.click
       /\ Shown.click = page.lastClick.click => Shown.kind = "notFound" /\ Shown.recs = <<>>

\* a timer showed two recommendations that the sort had to reorder, leaving
\* a third candidate out
C25_Witness ==
  /\ Shown.kind = "recs"
  /\ Len(Shown.recs) = 2
  /\ Cardinality(Candidates(Shown.liked)) = 3
  /\ Shown.recs[2].pos > Shown.recs[1].pos + 1

\* a click with a selected id that is no movie's id showed the error
C25_WitnessNotFound ==
  /\ Shown.kind = "notFound"
  /\ page.lastClick.value = PlaceholderId
  /\ page.movies # <<>>

\* C26: the RMSE shown for a finished epoch is the square root of the sum,
\* over the samples of that epoch, of the squared residual computed from the
\* parameters as they stood just before that sample's update, divided by the
\* number of ratings; every rating was counted once.
Reported == hist.log[Len(hist.log)]

C26_EpochRmse ==
  pc = "epochYield" =>
    /\ Reported.kind = "epoch"
    /\ Reported.epoch = loc.epoch
    /\ loc.count = Len(ratings)
    /\ Reported.rmse = Sqrt(hist.sse \div Len(ratings))

\* the second epoch of a training on two ratings ended with a positive RMSE
C26_Witness ==
  /\ pc = "epochYield"
  /\ loc.epoch = 2
  /\ Len(ratings) >= 2
  /\ Reported.rmse > 0
  /\ Reported.rmse # hist.sse \div Len(ratings)

\* C27: popularFallback(excludeItemId, k) returns at most k items, never the
\* excluded item, each with sim 0, in non-increasing order of their number of
\* rating events, every item left out having a count no greater than that
\* of each item returned, and an empty list when there are no ratings.
FallbackCall == lastCall.via = "fallback"

RatingCount(id) == Cardinality({n \in 1..Len(ratings) : ratings[n].itemId = id})

FallbackCandidates == {ratings[n].itemId : n \in 1..Len(ratings)} \ {lastCall.itemId}

FallbackRanked ==
  LET list == lastCall.list
      returned == {list[x].itemId : x \in 1..Len(list)}
  IN  /\ returned \subseteq FallbackCandidates
      /\ Cardinality(returned) = Len(list)
      /\ \A x \in 1..Len(list) : list[x].sim = 0
      /\ \A x, y \in 1..Len(list) :
           x < y => RatingCount(list[x].itemId) >= RatingCount(list[y].itemId)
      /\ \A id \in FallbackCandidates \ returned :
           \A x \in 1..Len(list) : RatingCount(id) <= RatingCount(list[x].itemId)
      /\ ratings = <<>> => list = <<>>

\* the claim for every k
C27_FallbackAtMostK ==
  FallbackCall => FallbackRanked /\ Len(lastCall.list) <= lastCall.k

\* the claim for k >= 0, where the list has min(k, number of candidates) items
C27_FallbackRanked ==
  FallbackCall =>
    /\ FallbackRanked
    /\ lastCall.k >= 0 =>
         Len(lastCall.list) = Min(lastCall.k, Cardinality(FallbackCandidates))

\* a call with k = 1 returned the item rated twice and left out the item
\* rated once, which comes first in the ratings
C27_Witness ==
  /\ lastCall.fn = "popularFallback"
  /\ lastCall.k = 1
  /\ Len(lastCall.list) = 1
  /\ Cardinality(FallbackCandidates) = 2
  /\ RatingCount(lastCall.list[1].itemId) = 2
  /\ ratings[1].itemId \in FallbackCandidates \ {lastCall.list[1].itemId}

\* C28: every movie parsed from a u.item line has a binary vector of length
\* NUM_GENRES that holds the last NUM_GENRES flag fields of the line, vector[i]
\* for GENRE_NAMES[i], and its genres are exactly the names whose flag is 1.
ParsedLines == SelectSeq(page.text, LAMBDA line : ~line.blank)

LastFlags(line) == SubSeq(line.flags, Len(line.flags) - NUM_GENRES + 1, Len(line.flags))

C28_VectorFromLastFlags ==
  page.loaded =>
    /\ Len(page.movies) = Len(ParsedLines)
    /\ \A n \in 1..Len(ParsedLines) :
         LET movie == page.movies[n]
             last == LastFlags(ParsedLines[n])
         IN  /\ movie.id = ParsedLines[n].id
             /\ DOMAIN movie.vector = 0..(NUM_GENRES - 1)
             /\ \A i \in 0..(NUM_GENRES - 1) :
                  /\ movie.vector[i] \in {0, 1}
                  /\ movie.vector[i] = last[i + 1]
                  /\ (last[i + 1] = 1) = (GENRE_NAMES[i + 1] \in SeqToSet(movie.genres))
             /\ SeqToSet(movie.genres) \subseteq {GENRE_NAMES[g] : g \in 1..NUM_GENRES}

\* C29: every movie of the dropdown has an entry in itemIdToIndex, and a
\* click served from the trained model returns, without an exception,
\* exactly min(REC_K, I - 1) recommendations for I rated items, at least one
\* when two or more distinct items were rated.
ClickedLatent == lastCall.fn = "getRecommendations" /\ lastCall.via = "latent"

TimerShown == Shown.kind \in {"recs", "none"}

C30_TimersInClickOrder ==
  /\ \A t \in 1..Len(page.timers) :
       /\ page.timers[t].likedMovie.id = page.timers[t].value
       /\ page.timers[t].likedMovie = page.movies[find(page.movies, page.timers[t].value)]
       /\ TimerShown => Shown.click < page.timers[t].click
       /\ \A u \in 1..Len(page.timers) : t < u => page.timers[t].click < page.timers[u].click
  /\ TimerShown =>
       Shown.recs = topTwo(page.movies, page.movies[find(page.movies, Shown.liked)])
  /\ (page.clicks > 0 /\ page.timers = <<>>
        /\ find(page.movies, page.lastClick.value) # 0) =>
       /\ TimerShown
       /\ Shown.click = page.lastClick.click
       /\ Shown.liked = page.lastClick.value

\* three clicks with three different selections were made before the first
\* timer fired, and all timers have fired
C30_Witness ==
  /\ page.timers = <<>>
  /\ page.lastClick.click = 3
  /\ Shown.kind = "recs"
  /\ Shown.click = 3
  /\ Shown.liked = 3
  /\ page.overlap = <<1, 2>>

====
